---- MODULE Spec2Model ----
(***************************************************************************)
(* Lexer and recursive-descent parser of src/comp.py.                      *)
(*                                                                         *)
(* A text is a sequence of one-character strings.  A token is the pair     *)
(* <<kind, lexeme>> the lexer builds, the lexeme being the matched text.   *)
(* An AST node is a record [value, children].  Parser methods are          *)
(* operators over the parser object `self` (a record of its fields); each  *)
(* returns the parser object after the call, the value returned and the    *)
(* exception raised, if any.  `d` is the depth of the Python call stack.   *)
(* main is the state machine: it lexes the text entered, builds the        *)
(* parser and calls parse, ending "done", in "error" (a ValueError, which  *)
(* main catches) or in "crash" (any other exception).                      *)
(***************************************************************************)
EXTENDS Integers, Sequences, FiniteSets, TLC

\* ------------------------------------------------------------------ bounds
\* Longest text given to the lexer alone.
MaxTextLen == 3
\* Longest sequence of arbitrary lexemes given to lexer and parser.
MaxTokens == 4
\* Most operands of an operator chain "a op b op c ..." given to them.
MaxOperands == 3
\* Depth at which the interpreter stops a recursion with RecursionError; no
\* descent that consumes a token per F reaches it within the bounds above.
RecursionLimit == 24

\* ------------------------------------------------------- texts and lexemes
\* The characters \d matches.
Digits == {"0", "1", "2", "3", "4", "5", "6", "7", "8", "9"}
Alphabet ==
  {"2", "3", ".", "+", "-", "*", "/", "^", "!", "(", ")",
   "s", "i", "n", "c", "o", "@", " "}

Lexemes ==
  {<<"2">>, <<"+">>, <<"-">>, <<"*">>, <<"/">>, <<"^">>, <<"!">>,
   <<"s", "i", "n">>, <<"c", "o", "s">>, <<"(">>, <<")">>}

RECURSIVE Flatten(_)
Flatten(items) ==
  IF items = <<>> THEN <<>> ELSE Head(items) \o Flatten(Tail(items))

SeqsUpTo(S, n) == UNION {[1..k -> S] : k \in 0..n}

\* Every text of at most MaxTextLen characters.
Texts == SeqsUpTo(Alphabet, MaxTextLen)
\* Every text made of at most MaxTokens lexemes written one after another.
Sentences == {Flatten(items) : items \in SeqsUpTo(Lexemes, MaxTokens)}

Operands == {<<"2">>, <<"3">>, <<"4">>}
Operators == {<<"+">>, <<"-">>, <<"*">>, <<"/">>, <<"^">>}
\* Every chain of n operands joined by n - 1 binary operators.
RECURSIVE ChainsOf(_)
ChainsOf(n) ==
  IF n = 1 THEN Operands
  ELSE {c \o op \o a : c \in ChainsOf(n - 1), op \in Operators, a \in Operands}
Chains == UNION {ChainsOf(n) : n \in 1..MaxOperands}

Expressions == Sentences \cup Chains

\* ------------------------------------------------------------- TOKEN_TYPES
\* The patterns in the order the dictionary lists them.
TOKEN_ORDER ==
  <<"NUMBER", "PLUS", "MINUS", "MULTIPLY", "DIVIDE", "CARET", "FACTORIAL",
    "SIN", "COS", "LPAREN", "RPAREN">>

\* First position (0-based) at or after i that holds no digit.
RECURSIVE DigitsEnd(_, _)
DigitsEnd(e, i) ==
  IF i < Len(e) /\ e[i + 1] \in Digits THEN DigitsEnd(e, i + 1) ELSE i

\* Does the literal lit occur in e at position i (0-based)?
LiteralAt(e, i, lit) ==
  /\ i + Len(lit) <= Len(e)
  /\ \A k \in 1..Len(lit) : e[i + k] = lit[k]

\* Mutant of NumberMatch: the pattern \d+, without the fraction.
NumberMatch_NoFraction(e, i) ==
  LET j == DigitsEnd(e, i) IN IF j = i THEN -1 ELSE j

\* \d+(\.\d+)? anchored at i: the end of the match, or -1.
NumberMatch(e, i) ==
  LET j == DigitsEnd(e, i) IN
  IF j = i THEN -1
  ELSE IF j < Len(e) /\ e[j + 1] = "." /\ DigitsEnd(e, j + 1) > j + 1
       THEN DigitsEnd(e, j + 1)
       ELSE j

LiteralMatch(e, i, lit) == IF LiteralAt(e, i, lit) THEN i + Len(lit) ELSE -1

\* regex.match(expression, index) for the pattern of token_type: match.end()
\* or -1 when there is no match.
PatternMatch(token_type, e, i) ==
  CASE token_type = "NUMBER"    -> NumberMatch(e, i)
    [] token_type = "PLUS"      -> LiteralMatch(e, i, <<"+">>)
    [] token_type = "MINUS"     -> LiteralMatch(e, i, <<"-">>)
    [] token_type = "MULTIPLY"  -> LiteralMatch(e, i, <<"*">>)
    [] token_type = "DIVIDE"    -> LiteralMatch(e, i, <<"/">>)
    [] token_type = "CARET"     -> LiteralMatch(e, i, <<"^">>)
    [] token_type = "FACTORIAL" -> LiteralMatch(e, i, <<"!">>)
    [] token_type = "SIN"       -> LiteralMatch(e, i, <<"s", "i", "n">>)
    [] token_type = "COS"       -> LiteralMatch(e, i, <<"c", "o", "s">>)
    [] token_type = "LPAREN"    -> LiteralMatch(e, i, <<"(">>)
    [] token_type = "RPAREN"    -> LiteralMatch(e, i, <<")">>)

\* ------------------------------------------------------------------- lexer
NoException == <<>>
EOF == <<"EOF", <<"E", "O", "F">>>>

\* The for loop over TOKEN_TYPES: the first pattern, from the k-th on, that
\* matches at index, as <<token_type, end>>, or <<>> when none does.
RECURSIVE FirstMatch(_, _, _)
FirstMatch(e, index, k) ==
  IF k > Len(TOKEN_ORDER) THEN <<>>
  ELSE LET end == PatternMatch(TOKEN_ORDER[k], e, index) IN
       IF end >= 0 THEN <<TOKEN_ORDER[k], end>>
       ELSE FirstMatch(e, index, k + 1)

RECURSIVE LexerLoop(_, _, _)
\* Mutant of LexerLoop: a character no pattern matches is skipped.
LexerLoop_Skip(e, index, tokens) ==
  IF index < Len(e)
  THEN LET match == FirstMatch(e, index, 1) IN
       IF match = <<>>
       THEN LexerLoop(e, index + 1, tokens)
       ELSE LexerLoop(e, match[2],
                      Append(tokens, <<match[1], SubSeq(e, index + 1, match[2])>>))
  ELSE [ret |-> Append(tokens, EOF), exc |-> NoException]

\* The while loop of lexer.
LexerLoop(e, index, tokens) ==
  IF index < Len(e)
  THEN LET match == FirstMatch(e, index, 1) IN
       IF match = <<>>
       THEN [ret |-> <<>>,
             exc |-> <<"ValueError", "Unexpected character: ", e[index + 1]>>]
       ELSE LexerLoop(e, match[2],
                      Append(tokens, <<match[1], SubSeq(e, index + 1, match[2])>>))
  ELSE [ret |-> Append(tokens, EOF), exc |-> NoException]

lexer(expression) == LexerLoop(expression, 0, <<>>)

\* ----------------------------------------------------------------- ASTNode
ASTNode(value, children) == [value |-> value, children |-> children]

\* None, where a node is expected.
NoNode == [value |-> <<>>, children |-> <<>>]

\* ------------------------------------------------------------------ Parser
\* Parser.__init__
Parser(tokens) ==
  [tokens |-> tokens, index |-> 0, current_token |-> tokens[1],
   derivation_steps |-> <<>>]

\* main before it has built the parser.
NoParser ==
  [tokens |-> <<>>, index |-> 0, current_token |-> <<>>,
   derivation_steps |-> <<>>]

Log(self, step) ==
  [self EXCEPT !.derivation_steps = Append(@, step)]

Return(self, value) == [self |-> self, ret |-> value, exc |-> NoException]
Raise(self, exception) == [self |-> self, ret |-> NoNode, exc |-> exception]

RecursionError == <<"RecursionError">>

advance(self) ==
  LET index == self.index + 1 IN
  IF index < Len(self.tokens)
  THEN [self EXCEPT !.index = index, !.current_token = self.tokens[index + 1]]
  ELSE [self EXCEPT !.index = index]

match(self, token_type) ==
  IF self.current_token[1] = token_type
  THEN Return(advance(self), self.current_token[2])
  ELSE Raise(self, <<"ValueError", "Syntax Error: Expected ", token_type,
                     ", found ", self.current_token[1]>>)

UnexpectedToken(self) ==
  <<"ValueError", "Syntax Error: Unexpected token ", self.current_token[1]>>

\* A call whose exception, if it raises one, propagates to the caller; when
\* it returns, the caller goes on with Continue(the call's result).
Call(result, Continue(_)) ==
  IF result.exc # NoException THEN result ELSE Continue(result)

RECURSIVE parse_E(_, _)
RECURSIVE parse_E_PRIME(_, _, _)
RECURSIVE parse_T(_, _)
RECURSIVE parse_T_PRIME(_, _, _)
RECURSIVE parse_F(_, _)

parse_E(self, d) ==
  IF d > RecursionLimit THEN Raise(self, RecursionError)
  ELSE Call(parse_T(Log(self, "E -> T E'"), d + 1), LAMBDA left :
       parse_E_PRIME(left.self, left.ret, d + 1))

\* Mutant of parse_E_PRIME: the right operand of + and - is one factor.
parse_E_PRIME_FactorOperand(self, left, d) ==
  IF d > RecursionLimit THEN Raise(self, RecursionError)
  ELSE IF self.current_token[1] = "PLUS"
  THEN Call(match(Log(self, "E' -> + T E'"), "PLUS"), LAMBDA m :
       Call(parse_F(m.self, d + 1), LAMBDA right :
       parse_E_PRIME(right.self, ASTNode(<<"+">>, <<left, right.ret>>), d + 1)))
  ELSE IF self.current_token[1] = "MINUS"
  THEN Call(match(Log(self, "E' -> - T E'"), "MINUS"), LAMBDA m :
       Call(parse_F(m.self, d + 1), LAMBDA right :
       parse_E_PRIME(right.self, ASTNode(<<"-">>, <<left, right.ret>>), d + 1)))
  ELSE Return(Log(self, "E' -> ε"), left)

parse_E_PRIME(self, left, d) ==
  IF d > RecursionLimit THEN Raise(self, RecursionError)
  ELSE IF self.current_token[1] = "PLUS"
  THEN Call(match(Log(self, "E' -> + T E'"), "PLUS"), LAMBDA m :
       Call(parse_T(m.self, d + 1), LAMBDA right :
       parse_E_PRIME(right.self, ASTNode(<<"+">>, <<left, right.ret>>), d + 1)))
  ELSE IF self.current_token[1] = "MINUS"
  THEN Call(match(Log(self, "E' -> - T E'"), "MINUS"), LAMBDA m :
       Call(parse_T(m.self, d + 1), LAMBDA right :
       parse_E_PRIME(right.self, ASTNode(<<"-">>, <<left, right.ret>>), d + 1)))
  ELSE Return(Log(self, "E' -> ε"), left)

\* Mutant of parse_T: the step is logged after the factor is parsed.
parse_T_LogAfter(self, d) ==
  IF d > RecursionLimit THEN Raise(self, RecursionError)
  ELSE Call(parse_F(self, d + 1), LAMBDA left :
       parse_T_PRIME(Log(left.self, "T -> F T'"), left.ret, d + 1))

parse_T(self, d) ==
  IF d > RecursionLimit THEN Raise(self, RecursionError)
  ELSE Call(parse_F(Log(self, "T -> F T'"), d + 1), LAMBDA left :
       parse_T_PRIME(left.self, left.ret, d + 1))

\* Mutant of parse_T_PRIME: the rest of the chain becomes the right child.
parse_T_PRIME_RightLeaning(self, left, d) ==
  IF d > RecursionLimit THEN Raise(self, RecursionError)
  ELSE IF self.current_token[1] = "MULTIPLY"
  THEN Call(match(Log(self, "T' -> * F T'"), "MULTIPLY"), LAMBDA m :
       Call(parse_F(m.self, d + 1), LAMBDA right :
       Call(parse_T_PRIME(right.self, right.ret, d + 1), LAMBDA rest :
       Return(rest.self, ASTNode(<<"*">>, <<left, rest.ret>>)))))
  ELSE IF self.current_token[1] = "DIVIDE"
  THEN Call(match(Log(self, "T' -> / F T'"), "DIVIDE"), LAMBDA m :
       Call(parse_F(m.self, d + 1), LAMBDA right :
       Call(parse_T_PRIME(right.self, right.ret, d + 1), LAMBDA rest :
       Return(rest.self, ASTNode(<<"/">>, <<left, rest.ret>>)))))
  ELSE Return(Log(self, "T' -> ε"), left)

parse_T_PRIME(self, left, d) ==
  IF d > RecursionLimit THEN Raise(self, RecursionError)
  ELSE IF self.current_token[1] = "MULTIPLY"
  THEN Call(match(Log(self, "T' -> * F T'"), "MULTIPLY"), LAMBDA m :
       Call(parse_F(m.self, d + 1), LAMBDA right :
       parse_T_PRIME(right.self, ASTNode(<<"*">>, <<left, right.ret>>), d + 1)))
  ELSE IF self.current_token[1] = "DIVIDE"
  THEN Call(match(Log(self, "T' -> / F T'"), "DIVIDE"), LAMBDA m :
       Call(parse_F(m.self, d + 1), LAMBDA right :
       parse_T_PRIME(right.self, ASTNode(<<"/">>, <<left, right.ret>>), d + 1)))
  ELSE Return(Log(self, "T' -> ε"), left)

parse_F(self, d) ==
  IF d > RecursionLimit THEN Raise(self, RecursionError)
  ELSE IF self.current_token[1] = "LPAREN"
  THEN Call(match(Log(self, "F -> ( E )"), "LPAREN"), LAMBDA m :
       Call(parse_E(m.self, d + 1), LAMBDA node :
       Call(match(node.self, "RPAREN"), LAMBDA close :
       Return(close.self, node.ret))))
  ELSE IF self.current_token[1] = "NUMBER"
  THEN Call(match(Log(self, "F -> NUMBER"), "NUMBER"), LAMBDA value :
       Return(value.self, ASTNode(value.ret, <<>>)))
  ELSE IF self.current_token[1] = "SIN"
  THEN Call(match(Log(self, "F -> sin F"), "SIN"), LAMBDA m :
       Call(parse_F(m.self, d + 1), LAMBDA child :
       Return(child.self, ASTNode(<<"s", "i", "n">>, <<child.ret>>))))
  ELSE IF self.current_token[1] = "COS"
  THEN Call(match(Log(self, "F -> cos F"), "COS"), LAMBDA m :
       Call(parse_F(m.self, d + 1), LAMBDA child :
       Return(child.self, ASTNode(<<"c", "o", "s">>, <<child.ret>>))))
  ELSE IF self.current_token[1] = "CARET"
  THEN Call(parse_F(Log(self, "F -> F ^ F"), d + 1), LAMBDA left :
       Call(match(left.self, "CARET"), LAMBDA m :
       Call(parse_F(m.self, d + 1), LAMBDA right :
       Return(right.self, ASTNode(<<"^">>, <<left.ret, right.ret>>)))))
  ELSE IF self.current_token[1] = "FACTORIAL"
  THEN Call(parse_F(Log(self, "F -> F !"), d + 1), LAMBDA child :
       Call(match(child.self, "FACTORIAL"), LAMBDA m :
       Return(m.self, ASTNode(<<"!">>, <<child.ret>>))))
  ELSE Raise(self, UnexpectedToken(self))

\* Mutant of parse: the current token is not required to be EOF.
parse_NoEOFCheck(self) ==
  Call(parse_E(self, 2), LAMBDA ast :
  Return(ast.self, <<ast.ret, ast.self.derivation_steps>>))

\* Parser.parse, called by main at stack depth 1.
parse(self) ==
  Call(parse_E(self, 2), LAMBDA ast :
  IF ast.self.current_token[1] # "EOF"
  THEN Raise(ast.self, UnexpectedToken(ast.self))
  ELSE Return(ast.self, <<ast.ret, ast.self.derivation_steps>>))

\* -------------------------------------------------------------------- main
VARIABLES expression, tokens, parser, ast, derivation_steps, exc, pc

vars == <<expression, tokens, parser, ast, derivation_steps, exc, pc>>

Start(inputs) ==
  /\ expression \in inputs
  /\ tokens = <<>>
  /\ parser = NoParser
  /\ ast = NoNode
  /\ derivation_steps = <<>>
  /\ exc = NoException
  /\ pc = "lexer"

Init == Start(Expressions)
InitLexer == Start(Texts)

\* tokens = lexer(expression)
RunLexer ==
  /\ pc = "lexer"
  /\ \E r \in {lexer(expression)} :
     /\ tokens' = r.ret
     /\ exc' = r.exc
     /\ pc' = IF r.exc = NoException THEN "Parser" ELSE "error"
  /\ UNCHANGED <<expression, parser, ast, derivation_steps>>

\* parser = Parser(tokens)
NewParser ==
  /\ pc = "Parser"
  /\ parser' = Parser(tokens)
  /\ pc' = "parse"
  /\ UNCHANGED <<expression, tokens, ast, derivation_steps, exc>>

\* ast, derivation_steps = parser.parse()
RunParse ==
  /\ pc = "parse"
  /\ \E r \in {parse(parser)} :
     /\ parser' = r.self
     /\ exc' = r.exc
     /\ IF r.exc = NoException
        THEN /\ ast' = r.ret[1]
             /\ derivation_steps' = r.ret[2]
             /\ pc' = "done"
        ELSE /\ UNCHANGED <<ast, derivation_steps>>
             /\ pc' = IF r.exc[1] = "ValueError" THEN "error" ELSE "crash"
  /\ UNCHANGED <<expression, tokens>>

NextLexer == RunLexer
Next == RunLexer \/ NewParser \/ RunParse

Spec == Init /\ [][Next]_vars
SpecLexer == InitLexer /\ [][NextLexer]_vars

\* ================================================================== claims
Finished == pc \in {"done", "error", "crash"}
Lexed == pc # "lexer"

Leaf(a) == ASTNode(a, <<>>)
Unary(op, child) == ASTNode(op, <<child>>)
Binary(op, left, right) == ASTNode(op, <<left, right>>)

Range(s) == {s[k] : k \in 1..Len(s)}

\* ---- C1
\* C1: multiplication and division bind tighter than addition and
\* subtraction: "a+b*c" parses to +(a, *(b, c)) and "a*b+c" to +(*(a, b), c),
\* for every additive and every multiplicative operator.
C1_Precedence ==
  (Finished /\ Len(expression) = 5) =>
    \A a \in Operands, b \in Operands, c \in Operands,
       add \in {<<"+">>, <<"-">>}, mul \in {<<"*">>, <<"/">>} :
      /\ (expression = a \o add \o b \o mul \o c)
           => /\ pc = "done"
              /\ ast = Binary(add, Leaf(a), Binary(mul, Leaf(b), Leaf(c)))
      /\ (expression = a \o mul \o b \o add \o c)
           => /\ pc = "done"
              /\ ast = Binary(add, Binary(mul, Leaf(a), Leaf(b)), Leaf(c))

C1_Witness ==
  /\ pc = "done"
  /\ expression = <<"2", "+", "3", "*", "4">>
  /\ ast = Binary(<<"+">>, Leaf(<<"2">>),
                  Binary(<<"*">>, Leaf(<<"3">>), Leaf(<<"4">>)))

\* ---- C2
\* The tokens are n >= 2 NUMBERs joined by operators of the kinds ops.
IsChainOver(toks, ops) ==
  /\ Len(toks) >= 4
  /\ Len(toks) % 2 = 0
  /\ \A k \in 1..(Len(toks) - 1) :
       IF k % 2 = 1 THEN toks[k][1] = "NUMBER" ELSE toks[k][1] \in ops

\* The left-leaning tree over the first n operands of such a chain.
RECURSIVE LeftChain(_, _)
LeftChain(toks, n) ==
  IF n = 1 THEN Leaf(toks[1][2])
  ELSE Binary(toks[2 * n - 2][2], LeftChain(toks, n - 1), Leaf(toks[2 * n - 1][2]))

\* C2: a chain of operands joined only by + and -, or only by * and /,
\* parses to the left-leaning tree: each operator node has everything to its
\* left as left child and the single next operand as right child.
C2_LeftAssociative ==
  (/\ Finished
   /\ \/ IsChainOver(tokens, {"PLUS", "MINUS"})
      \/ IsChainOver(tokens, {"MULTIPLY", "DIVIDE"}))
    => /\ pc = "done"
       /\ ast = LeftChain(tokens, Len(tokens) \div 2)

C2_Witness ==
  /\ pc = "done"
  /\ expression = <<"2", "/", "3", "*", "4">>
  /\ ast = Binary(<<"*">>, Binary(<<"/">>, Leaf(<<"2">>), Leaf(<<"3">>)),
                  Leaf(<<"4">>))

\* ---- C3
\* C3: exponentiation parses and is right-associative: "a^b" parses to
\* ^(a, b) and "a^b^c" to ^(a, ^(b, c)).
C3_CaretRightAssociative ==
  \A a \in Operands, b \in Operands, c \in Operands :
    /\ (Finished /\ expression = a \o <<"^">> \o b)
         => /\ pc = "done"
            /\ ast = Binary(<<"^">>, Leaf(a), Leaf(b))
    /\ (Finished /\ expression = a \o <<"^">> \o b \o <<"^">> \o c)
         => /\ pc = "done"
            /\ ast = Binary(<<"^">>, Leaf(a), Binary(<<"^">>, Leaf(b), Leaf(c)))

\* ---- C4
\* C4: postfix factorial parses: "a!" parses to !(a).
C4_FactorialParses ==
  \A a \in Operands :
    (Finished /\ expression = a \o <<"!">>)
      => /\ pc = "done"
         /\ ast = Unary(<<"!">>, Leaf(a))

\* ---- C5
\* parse_F was entered on a CARET or FACTORIAL token: it logged the step of
\* that branch.
EnteredFOnPostfix ==
  \/ "F -> F ^ F" \in Range(parser.derivation_steps)
  \/ "F -> F !" \in Range(parser.derivation_steps)

\* C5: whenever parse_F is entered with the current token CARET or FACTORIAL,
\* the parse ends with a syntax error, and returns no AST.
C5_PostfixEntryIsSyntaxError ==
  (Finished /\ EnteredFOnPostfix)
    => /\ pc = "error"
       /\ exc[1] = "ValueError"
       /\ exc[2] \in {"Syntax Error: Unexpected token ", "Syntax Error: Expected "}
       /\ ast = NoNode

\* ---- C6
\* C6: parse terminates on every token sequence, with a returned pair or a
\* syntax error: the recursion is bounded by the number of tokens, so it never
\* runs into the interpreter's recursion limit.
C6_ParseTerminates ==
  Finished => /\ pc \in {"done", "error"}
              /\ exc # RecursionError

\* ---- C7
\* C7: parse returns only with the current token EOF and every token before
\* it consumed; when parse_E completes and a token other than EOF is current,
\* parse fails with the syntax error naming that token's kind and returns no
\* AST and no log.
C7_ReturnsOnlyAtEOF ==
  /\ pc = "done"
       => /\ parser.current_token = EOF
          /\ parser.index = Len(tokens) - 1
          /\ \A k \in 1..(Len(tokens) - 1) : tokens[k][1] # "EOF"
  /\ (Finished /\ tokens # <<>>)
       => \A e \in {parse_E(Parser(tokens), 2)} :
          (e.exc = NoException /\ e.self.current_token[1] # "EOF")
            => /\ pc = "error"
               /\ exc = <<"ValueError", "Syntax Error: Unexpected token ",
                          tokens[e.self.index + 1][1]>>
               /\ ast = NoNode
               /\ derivation_steps = <<>>

C7_Witness ==
  /\ pc = "error"
  /\ expression = <<"2", "(", "2", ")">>
  /\ exc = <<"ValueError", "Syntax Error: Unexpected token ", "LPAREN">>
  /\ ast = NoNode

\* ---- C8
DigitsAndDots(e) == \A k \in 1..Len(e) : e[k] \in Digits \cup {"."}
AllDigits(e, from, to) == \A k \in from..to : e[k] \in Digits

\* e is digits, or digits "." digits, each run non-empty.
IsNumeral(e) ==
  \E n \in 1..Len(e) :
    /\ AllDigits(e, 1, n)
    /\ \/ n = Len(e)
       \/ /\ n + 2 <= Len(e)
          /\ e[n + 1] = "."
          /\ AllDigits(e, n + 2, Len(e))

OneNumber ==
  /\ exc = NoException
  /\ Len(tokens) = 2
  /\ tokens[1][1] = "NUMBER"
  /\ tokens[2] = EOF

\* C8 as stated: every non-empty text of digits and "." lexes to one NUMBER
\* token followed by EOF.
C8_DigitsAndDotsOneNumber ==
  (Lexed /\ expression # <<>> /\ DigitsAndDots(expression)) => OneNumber

\* C8 as amended: a text of digits and "." lexes to one NUMBER token, whose
\* lexeme is the whole text, followed by EOF when it is digits optionally
\* followed by one "." and digits; any other such text is refused with
\* "Unexpected character: ." and no tokens.
C8_NumeralOneNumber ==
  (Lexed /\ expression # <<>> /\ DigitsAndDots(expression))
    => IF IsNumeral(expression)
       THEN OneNumber /\ tokens[1][2] = expression
       ELSE /\ tokens = <<>>
            /\ exc = <<"ValueError", "Unexpected character: ", ".">>

C8_Witness ==
  /\ Lexed
  /\ expression = <<"2", ".", "3">>
  /\ tokens = <<<<"NUMBER", <<"2", ".", "3">>>>, EOF>>

\* ---- C9
Unmatched(e, i) == \A k \in 1..Len(TOKEN_ORDER) : PatternMatch(TOKEN_ORDER[k], e, i) = -1

\* The positions a left-to-right scan of e stops at, from position i on.
RECURSIVE ScanFrom(_, _)
ScanFrom(e, i) ==
  IF i >= Len(e) \/ Unmatched(e, i) THEN {i}
  ELSE {i} \cup ScanFrom(e, CHOOSE end \in (i + 1)..Len(e) :
                              \E k \in 1..Len(TOKEN_ORDER) :
                                PatternMatch(TOKEN_ORDER[k], e, i) = end)

Lexemes_of(toks) == [k \in 1..(Len(toks) - 1) |-> toks[k][2]]

\* C9: lexer fails exactly when its scan reaches a position where no pattern
\* matches; the error names the character there and no token is returned;
\* a character no pattern covers anywhere in the text makes it fail; and when
\* it succeeds the lexemes, in order, are the text.
C9_LexerFailsAtFirstUnmatched ==
  Lexed =>
    LET stuck == {i \in ScanFrom(expression, 0) :
                    i < Len(expression) /\ Unmatched(expression, i)} IN
    /\ (exc # NoException) <=> (stuck # {})
    /\ (exc # NoException)
         => /\ tokens = <<>>
            /\ pc = "error"
            /\ \A i \in stuck :
                 exc = <<"ValueError", "Unexpected character: ", expression[i + 1]>>
    /\ (\E k \in 1..Len(expression) : expression[k] \in {"@", " "})
         => exc # NoException
    /\ (exc = NoException)
         => /\ tokens[Len(tokens)] = EOF
            /\ Flatten(Lexemes_of(tokens)) = expression

C9_Witness ==
  /\ pc = "error"
  /\ expression = <<"2", "@", "3">>
  /\ exc = <<"ValueError", "Unexpected character: ", "@">>
  /\ tokens = <<>>

\* ---- C10
\* The grammar: the right-hand side of the production a step names.
Production(step) ==
  CASE step = "E -> T E'"    -> <<"E", <<"T", "E'">>>>
    [] step = "E' -> + T E'" -> <<"E'", <<"PLUS", "T", "E'">>>>
    [] step = "E' -> - T E'" -> <<"E'", <<"MINUS", "T", "E'">>>>
    [] step = "E' -> ε"      -> <<"E'", <<>>>>
    [] step = "T -> F T'"    -> <<"T", <<"F", "T'">>>>
    [] step = "T' -> * F T'" -> <<"T'", <<"MULTIPLY", "F", "T'">>>>
    [] step = "T' -> / F T'" -> <<"T'", <<"DIVIDE", "F", "T'">>>>
    [] step = "T' -> ε"      -> <<"T'", <<>>>>
    [] step = "F -> ( E )"   -> <<"F", <<"LPAREN", "E", "RPAREN">>>>
    [] step = "F -> NUMBER"  -> <<"F", <<"NUMBER">>>>
    [] step = "F -> sin F"   -> <<"F", <<"SIN", "F">>>>
    [] step = "F -> cos F"   -> <<"F", <<"COS", "F">>>>
    [] step = "F -> F ^ F"   -> <<"F", <<"F", "CARET", "F">>>>
    [] step = "F -> F !"     -> <<"F", <<"F", "FACTORIAL">>>>

NonTerminals == {"E", "E'", "T", "T'", "F"}

\* The leftmost derivation that applies the steps of log, in order, to the
\* sentential form: the terminals derived (out, then the form) when every
\* step rewrites the leftmost nonterminal and none is left; <<"fail">> else.
RECURSIVE Derive(_, _, _)
Derive(form, log, out) ==
  IF form # <<>> /\ Head(form) \notin NonTerminals
  THEN Derive(Tail(form), log, Append(out, Head(form)))
  ELSE IF form = <<>>
  THEN IF log = <<>> THEN out ELSE <<"fail">>
  ELSE IF log = <<>> THEN <<"fail">>
  ELSE LET p == Production(Head(log)) IN
       IF p[1] # Head(form) THEN <<"fail">>
       ELSE Derive(p[2] \o Tail(form), Tail(log), out)

Count(log, step) == Cardinality({k \in 1..Len(log) : log[k] = step})

Kinds_of(toks) == [k \in 1..(Len(toks) - 1) |-> toks[k][1]]

IsPrefix(s, t) == Len(s) <= Len(t) /\ SubSeq(t, 1, Len(s)) = s

DerivationOK(log) ==
  /\ log # <<>>
  /\ log[1] = "E -> T E'"
  /\ \A k \in 1..Len(log) :
       log[k] = "E -> T E'" => (k < Len(log) /\ log[k + 1] = "T -> F T'")
  /\ Count(log, "E' -> ε") = Count(log, "E -> T E'")
  /\ Count(log, "T' -> ε") = Count(log, "T -> F T'")
  /\ Derive(<<"E">>, log, <<>>) = Kinds_of(tokens)

====
